---- MODULE Spec2Model ----
(***************************************************************************)
(* Model of reasoning_gym/logic/multi_step_reasoning.py: the configuration *)
(* check, the four step operators, the sequencer of _generate_item and the *)
(* scoring of an answer.                                                   *)
(*                                                                         *)
(* Strings whose letters the program reads (words, rendered numbers) are   *)
(* sequences of one-character strings; names are only compared and         *)
(* measured, so they stay TLA+ strings.  A uniform draw rng.random() is an *)
(* integer number of hundredths.                                           *)
(***************************************************************************)
EXTENDS Integers, Sequences, FiniteSets, TLC

\* Largest magnitude of state["num"] the model follows (Python integers are
\* unbounded; a step whose result would be larger is not taken).
MaxNum == 100

None == "None"

\* state.get("word") is None, state.get("person") finds no entry
NoWord == <<>>

NoPerson == None

DATASET_NAME == "multi_step_reasoning"

WORD_BANK ==
    << <<"l","i","o","n">>, <<"t","i","g","e","r">>, <<"b","e","a","r">>,
       <<"w","o","l","f">>, <<"e","a","g","l","e">>, <<"s","h","a","r","k">>,
       <<"h","o","r","s","e">>, <<"w","h","a","l","e">>, <<"o","t","t","e","r">>,
       <<"c","a","m","e","l">> >>

NAME_BANK ==
    <<"Alice", "Bob", "Carol", "Dave", "Eve", "Frank", "Grace", "Heidi", "Ivan", "Judy">>

OPS == <<"deduction", "induction", "abduction", "transduction">>

ALPHABET ==
    <<"a","b","c","d","e","f","g","h","i","j","k","l","m",
      "n","o","p","q","r","s","t","u","v","w","x","y","z">>

DIGITS == <<"0","1","2","3","4","5","6","7","8","9">>

(***************************************************************************)
(* Python built-ins used by the program.                                   *)
(***************************************************************************)
Abs(n) == IF n < 0 THEN -n ELSE n

Range(s) == {s[k] : k \in 1..Len(s)}

\* the remainder that truncates toward zero (the sign of a)
TruncMod(a, b) == IF a >= 0 THEN a % b ELSE -((-a) % b)

\* a % b of Python for b > 0: the result has the sign of b
PyMod(a, b) == a % b

\* s[::-1]
Reversed(s) == [k \in 1..Len(s) |-> s[Len(s) + 1 - k]]

\* s[::2]
EverySecond(s) == [k \in 1..((Len(s) + 1) \div 2) |-> s[2 * k - 1]]

\* s.count(c)
Count(s, c) == Cardinality({k \in 1..Len(s) : s[k] = c})

\* sum(1 for c in word if c in "aeiou")
VowelCount(word) == Cardinality({k \in 1..Len(word) : word[k] \in {"a","e","i","o","u"}})

\* bank[i]: a list accepts an index in -len..len-1 and raises IndexError otherwise
InRange(bank, i) == i \in (-Len(bank))..(Len(bank) - 1)

ListGet(bank, i) == IF i >= 0 THEN bank[i + 1] ELSE bank[Len(bank) + i + 1]

\* bank.index(x): the first position of x; raises ValueError when x is absent
Contains(bank, x) == \E k \in 1..Len(bank) : bank[k] = x

ListIndex(bank, x) ==
    (CHOOSE k \in 1..Len(bank) : bank[k] = x /\ \A j \in 1..(k - 1) : bank[j] # x) - 1

\* the digits of n >= 0 in the given base, most significant first
RECURSIVE DigitsOf(_, _)
DigitsOf(n, base) ==
    IF n < base THEN <<DIGITS[n + 1]>>
    ELSE DigitsOf(n \div base, base) \o <<DIGITS[(n % base) + 1]>>

\* str(n)
Str(n) == IF n < 0 THEN <<"-">> \o DigitsOf(-n, 10) ELSE DigitsOf(n, 10)

\* bin(n)
Bin(n) == IF n < 0 THEN <<"-", "0", "b">> \o DigitsOf(-n, 2) ELSE <<"0", "b">> \o DigitsOf(n, 2)

\* np.base_repr(n, base)
BaseRepr(n, base) == IF n < 0 THEN <<"-">> \o DigitsOf(-n, base) ELSE DigitsOf(n, base)

\* s[2:]
DropTwo(s) == SubSeq(s, 3, Len(s))

\* int(s, 2): defined for a non-empty string of binary digits, ValueError otherwise
IsBinary(s) == Len(s) > 0 /\ \A k \in 1..Len(s) : s[k] \in {"0", "1"}

RECURSIVE ParseBinary(_)
ParseBinary(s) ==
    IF Len(s) = 0 THEN 0
    ELSE 2 * ParseBinary(SubSeq(s, 1, Len(s) - 1)) + (IF s[Len(s)] = "1" THEN 1 ELSE 0)

\* ord(c) - 97 for a lowercase letter
Ord97(c) == (CHOOSE k \in 1..26 : ALPHABET[k] = c) - 1

\* chr(n + 97)
Chr97(n) == ALPHABET[n + 1]

(***************************************************************************)
(* Draws of the random source.  A step's draws are one record, with the    *)
(* fields in the order the code consumes them.                             *)
(***************************************************************************)
\* rng.random(), in hundredths, on both sides of each threshold the caller tests
Around(thresholds) == {t - 1 : t \in thresholds} \cup thresholds

UNIFORM == Around({33, 66})

COIN == Around({50})

Low == {c \in UNIFORM : c < 33}

Mid == {c \in UNIFORM : ~(c < 33) /\ c < 66}

High == {c \in UNIFORM : ~(c < 33) /\ ~(c < 66)}

\* The model follows every draw of the part of the generation in focus (wide) and
\* one named draw of each other part.
\* rng.randint(lo, hi)
Randint(wide, lo, hi, pick) == IF wide THEN lo..hi ELSE {pick}

\* the position rng.choice(seq) or rng.shuffle draws below n = len(seq)
Below(wide, n, pick) == IF wide THEN 0..(n - 1) ELSE {pick}

\* rng.sample(population, 4): four distinct entries, in order; the model follows the
\* samples of four neighbours in the bank, in either direction
Window(population, k, dir) ==
    [j \in 1..4 |-> population[((k + dir * (j - 1) + Len(population)) % Len(population)) + 1]]

Sample4(wide, population) ==
    {Window(population, k, dir) : k \in Below(wide, Len(population), 0),
                                  dir \in IF wide THEN {1, -1} ELSE {1}}

\* rng.choice(seq) with k the position drawn below len(seq)
Choice(seq, k) == seq[k + 1]

\* the operator result of a step: the new state, the rendered line, or the raised error
Raise(state, error) == [raised |-> TRUE, error |-> error, state |-> state, line |-> <<>>]

Return(state, line) == [raised |-> FALSE, error |-> None, state |-> state, line |-> line]

(***************************************************************************)
(* _deduction                                                              *)
(***************************************************************************)
DeductionDraws(wide) ==
    [choice : Low, mult1 : Randint(wide, 10, 20, 10), add : Randint(wide, 5, 15, 5),
     sub : Randint(wide, 2, 10, 10), mult2 : Randint(wide, 2, 5, 2)]
        \cup [choice : Mid, short_thres : Randint(wide, 3, 4, 4),
              long_thres : Randint(wide, 7, 9, 7)]
        \cup [choice : High, sample : Sample4(wide, NAME_BANK)]

\* a classification that leaves the word unset when it is neither small nor large
ClassificationOrNone(word, short_thres, long_thres) ==
    LET vowel_count == VowelCount(word)
    IN  IF Len(word) <= short_thres \/ vowel_count < 2 THEN <<"s","m","a","l","l">>
        ELSE IF Len(word) >= long_thres /\ vowel_count >= 3 THEN <<"l","a","r","g","e">>
        ELSE NoWord

Classification(word, short_thres, long_thres) ==
    LET vowel_count == VowelCount(word)
    IN  IF Len(word) <= short_thres \/ vowel_count < 2 THEN <<"s","m","a","l","l">>
        ELSE IF Len(word) >= long_thres /\ vowel_count >= 3 THEN <<"l","a","r","g","e">>
        ELSE <<"m","e","d","i","u","m">>

Deduction(step_no, d, state) ==
    IF d.choice < 33 \/ state.word = NoWord THEN
        LET res == (state.num * d.mult1 + d.add - d.sub) * d.mult2
        IN  Return([state EXCEPT !.num = res],
                   [step_no |-> step_no, op |-> "deduction", field |-> "num", choice |-> d.choice,
                    rng_calls |-> 5, num |-> state.num, mult1 |-> d.mult1, add |-> d.add,
                    sub |-> d.sub, mult2 |-> d.mult2])
    ELSE IF d.choice < 66 THEN
        Return([state EXCEPT !.word = Classification(state.word, d.short_thres, d.long_thres)],
               [step_no |-> step_no, op |-> "deduction", field |-> "word", choice |-> d.choice,
                rng_calls |-> 3, short_thres |-> d.short_thres, long_thres |-> d.long_thres,
                word |-> state.word])
    ELSE
        Return([state EXCEPT !.person = d.sample[1]],
               [step_no |-> step_no, op |-> "deduction", field |-> "person", choice |-> d.choice,
                rng_calls |-> 2, names |-> d.sample])

(***************************************************************************)
(* _induction                                                              *)
(***************************************************************************)
InductionDraws(wide) ==
    [choice : Low, mult : Randint(wide, 2, 4, 2), add : Randint(wide, 3, 7, 3),
     n : Randint(wide, 3, 5, 3)]
        \cup [choice : Mid]
        \cup [choice : High, default : Below(wide, Len(NAME_BANK), 0),
              forward : Randint(wide, 1, 3, 3), backward : Randint(wide, 1, 3, 1),
              n : Randint(wide, 2, 4, 2)]

\* three passes of the loop, whatever n
IterateThrice(value, mult, add, n) ==
    ((value * mult + add) * mult + add) * mult + add

\* for _ in range(n): value = value * mult + add
RECURSIVE Iterate(_, _, _, _)
Iterate(value, mult, add, n) ==
    IF n = 0 THEN value ELSE Iterate(value * mult + add, mult, add, n - 1)

\* for _ in range(n): idx = (idx + forward) % len; idx = (idx - backward) % len
RECURSIVE Walk(_, _, _, _)
Walk(idx, forward, backward, n) ==
    IF n = 0 THEN idx
    ELSE Walk(PyMod(PyMod(idx + forward, Len(NAME_BANK)) - backward, Len(NAME_BANK)),
              forward, backward, n - 1)

NewWord(word) == Reversed(EverySecond(word)) \o <<word[Len(word)]>>

Induction(step_no, d, state) ==
    IF d.choice < 33 THEN
        Return([state EXCEPT !.num = Iterate(state.num, d.mult, d.add, d.n)],
               [step_no |-> step_no, op |-> "induction", field |-> "num", choice |-> d.choice,
                rng_calls |-> 4, num |-> state.num, mult |-> d.mult, add |-> d.add, n |-> d.n])
    ELSE IF d.choice < 66 THEN
        IF Len(state.word) = 0 THEN Raise(state, "IndexError")
        ELSE Return([state EXCEPT !.word = NewWord(state.word)],
                    [step_no |-> step_no, op |-> "induction", field |-> "word",
                     choice |-> d.choice, rng_calls |-> 1, word |-> state.word])
    ELSE
        LET start == IF state.person = NoPerson THEN Choice(NAME_BANK, d.default)
                     ELSE state.person
        IN  IF ~Contains(NAME_BANK, start) THEN Raise(state, "ValueError")
            ELSE LET idx == Walk(ListIndex(NAME_BANK, start), d.forward, d.backward, d.n)
                 IN  IF ~InRange(NAME_BANK, idx) THEN Raise(state, "IndexError")
                     ELSE Return([state EXCEPT !.person = ListGet(NAME_BANK, idx)],
                                 [step_no |-> step_no, op |-> "induction", field |-> "person",
                                  choice |-> d.choice, rng_calls |-> 5, start |-> start,
                                  forward |-> d.forward, backward |-> d.backward, n |-> d.n,
                                  idx |-> idx])

(***************************************************************************)
(* _abduction                                                              *)
(***************************************************************************)
AbductionDraws(wide) ==
    [choice : Low, secret : Randint(wide, 2, 5, 2), mult : Randint(wide, 2, 4, 2),
     offset : Randint(wide, 1, 3, 1), swap : Below(wide, 2, 0)]
        \cup [choice : Mid, shift : Randint(wide, 1, 3, 1),
              orig : Below(wide, Len(WORD_BANK), 0),
              wrong : Below(wide, Len(WORD_BANK) - 1, 0), swap : Below(wide, 2, 0)]
        \cup [choice : High, sample : Sample4(wide, NAME_BANK)]

Max(a, b) == IF a >= b THEN a ELSE b

\* rng.shuffle of a two-element list: the draw either swaps the two or not
Shuffle2(options, swap) == IF swap = 1 THEN <<options[2], options[1]>> ELSE options

\* the shifted letters without the reversal
EncodedInOrder(orig, shift) ==
    [k \in 1..Len(orig) |-> Chr97(PyMod(Ord97(orig[k]) + shift, 26))]

\* "".join(chr(((ord(c) - 97 + shift) % 26) + 97) for c in orig)[::-1]
Encoded(orig, shift) ==
    Reversed([k \in 1..Len(orig) |-> Chr97(PyMod(Ord97(orig[k]) + shift, 26))])

\* [w for w in self.WORD_BANK if w != orig]
Others(orig) == SelectSeq(WORD_BANK, LAMBDA w : w # orig)

\* the decoy with the offset drawn from 0
WrongNumberFromZero(secret, offset) == Max(2, secret + offset - 1)

WrongNumber(secret, offset) == Max(2, secret + offset)

WrongWord(orig, k) == Choice(Others(orig), k)

Abduction(step_no, d, state) ==
    IF d.choice < 33 THEN
        LET secret == d.secret
            add    == state.num - secret * secret * secret * d.mult
            wrong  == WrongNumber(secret, d.offset)
        IN  Return([state EXCEPT !.num = secret],
                   [step_no |-> step_no, op |-> "abduction", field |-> "num", choice |-> d.choice,
                    rng_calls |-> 5, num |-> state.num, mult |-> d.mult, add |-> add,
                    options |-> Shuffle2(<<secret, wrong>>, d.swap)])
    ELSE IF d.choice < 66 THEN
        LET orig  == Choice(WORD_BANK, d.orig)
            wrong == WrongWord(orig, d.wrong)
        IN  Return([state EXCEPT !.word = orig],
                   [step_no |-> step_no, op |-> "abduction", field |-> "word", choice |-> d.choice,
                    rng_calls |-> 5, shift |-> d.shift, encoded |-> Encoded(orig, d.shift),
                    options |-> Shuffle2(<<orig, wrong>>, d.swap)])
    ELSE
        Return([state EXCEPT !.person = d.sample[1]],
               [step_no |-> step_no, op |-> "abduction", field |-> "person", choice |-> d.choice,
                rng_calls |-> 2, names |-> d.sample])

(***************************************************************************)
(* _transduction                                                           *)
(***************************************************************************)
TransductionDraws(wide) ==
    [choice : Low, coin : COIN]
        \cup [choice : Mid]
        \cup [choice : High, default : Below(wide, Len(NAME_BANK), 0), coin : COIN]

Transduction(step_no, d, state) ==
    IF d.choice < 33 THEN
        IF d.coin < 50 THEN
            LET base      == 4
                base_repr == BaseRepr(state.num, base)
                res       == Count(base_repr, "3")
            IN  Return([state EXCEPT !.num = res],
                       [step_no |-> step_no, op |-> "transduction", field |-> "num",
                        choice |-> d.choice, rng_calls |-> 2, num |-> state.num, base |-> base])
        ELSE
            LET bin_str == DropTwo(Bin(state.num))
            IN  IF ~IsBinary(Reversed(bin_str)) THEN Raise(state, "ValueError")
                ELSE Return([state EXCEPT !.num = ParseBinary(Reversed(bin_str))],
                            [step_no |-> step_no, op |-> "transduction", field |-> "num",
                             choice |-> d.choice, rng_calls |-> 2, num |-> state.num, base |-> 2])
    ELSE IF d.choice < 66 THEN
        LET index == PyMod(state.num * state.num * state.num + state.num, Len(WORD_BANK))
        IN  IF ~InRange(WORD_BANK, index) THEN Raise(state, "IndexError")
            ELSE Return([state EXCEPT !.word = ListGet(WORD_BANK, index)],
                        [step_no |-> step_no, op |-> "transduction", field |-> "word",
                         choice |-> d.choice, rng_calls |-> 1, num |-> state.num,
                         index |-> index])
    ELSE
        LET person == IF state.person = NoPerson THEN Choice(NAME_BANK, d.default)
                      ELSE state.person
        IN  IF ~Contains(NAME_BANK, person) THEN Raise(state, "ValueError")
            ELSE LET idx     == ListIndex(NAME_BANK, person)
                     offset  == state.num * state.num
                     new_idx == IF d.coin < 50 THEN PyMod(idx + offset, Len(NAME_BANK))
                                ELSE PyMod(idx - offset, Len(NAME_BANK))
                 IN  IF ~InRange(NAME_BANK, new_idx) THEN Raise(state, "IndexError")
                     ELSE Return([state EXCEPT !.person = ListGet(NAME_BANK, new_idx)],
                                 [step_no |-> step_no, op |-> "transduction", field |-> "person",
                                  choice |-> d.choice, rng_calls |-> 3, person |-> person,
                                  offset |-> offset, forward |-> d.coin < 50, idx |-> new_idx])

(***************************************************************************)
(* MultiStepReasoningConfig.validate, __getitem__, _generate_item and the  *)
(* scoring of an answer.  Two datasets d1 and d2 are built and asked for   *)
(* one item each; gen[d] is the run of __getitem__ on dataset d.           *)
(***************************************************************************)
VARIABLES config, index, gen, reward

vars == <<config, index, gen, reward>>

\* seed = None
NoSeed == -1

\* the range check without the order of the two step counts
validateRangeOnly(cfg) == 5 <= cfg.min_steps /\ cfg.max_steps <= 10

validate(cfg) == 5 <= cfg.min_steps /\ cfg.min_steps <= cfg.max_steps /\ cfg.max_steps <= 10

\* a generator that is never seeded
RngKeyUnseeded(seed, idx) == NoSeed

\* Random(self.seed + idx if self.seed is not None else None): what the stream depends on
RngKey(seed, idx) == IF seed # NoSeed THEN seed + idx ELSE NoSeed

\* The streams followed for the generator of key k: the draws of one part of the
\* generation in full, the draws of the other parts at the ends of their ranges.
FOCUS == <<"none", "deduction", "induction", "abduction", "transduction">>

Focus(rng) == FOCUS[(rng % Len(FOCUS)) + 1]

Permutations4 == {p \in [1..4 -> Range(OPS)] : \A j, k \in 1..4 : j # k => p[j] # p[k]}

BeginDraws(cfg, wide) ==
    [steps : cfg.min_steps..cfg.max_steps, num : IF wide THEN 2..9 ELSE {2, 9},
     word : Below(wide, Len(WORD_BANK), 0), person : Below(wide, Len(NAME_BANK), 0),
     step_types : Permutations4]

NewDataset ==
    [pc |-> "new", rng |-> NoSeed, steps |-> 0, state |-> <<>>, step_types |-> <<>>, i |-> 0,
     question_lines |-> <<>>, line |-> <<>>, item |-> <<>>, error |-> None]

\* the dataset's constructor: the configuration is validated before anything is generated
Construct(g, cfg) ==
    IF validate(cfg) THEN [g EXCEPT !.pc = "ready"]
    ELSE [g EXCEPT !.pc = "config_error", !.error = "AssertionError"]

\* the initial state without its "person" entry
BeginWithoutPerson(g, rng, d) ==
    [g EXCEPT !.pc = "loop", !.rng = rng, !.steps = d.steps,
              !.state = [num |-> d.num, word |-> Choice(WORD_BANK, d.word),
                         person |-> NoPerson],
              !.step_types = d.step_types, !.i = 1]

\* __getitem__ and _generate_item up to the loop
Begin(g, rng, d) ==
    [g EXCEPT !.pc = "loop", !.rng = rng, !.steps = d.steps,
              !.state = [num |-> d.num, word |-> Choice(WORD_BANK, d.word),
                         person |-> Choice(NAME_BANK, d.person)],
              !.step_types = d.step_types, !.i = 1]

DrawsOf(op, wide) ==
    CASE op = "deduction" -> DeductionDraws(wide)
      [] op = "induction" -> InductionDraws(wide)
      [] op = "abduction" -> AbductionDraws(wide)
      [] op = "transduction" -> TransductionDraws(wide)

\* a dispatch whose operators also put the head of the name bank into "person"
ApplyOpResettingPerson(op, step_no, d, state) ==
    LET r == CASE op = "deduction" -> Deduction(step_no, d, state)
               [] op = "induction" -> Induction(step_no, d, state)
               [] op = "abduction" -> Abduction(step_no, d, state)
               [] op = "transduction" -> Transduction(step_no, d, state)
    IN  IF r.raised \/ r.line.field = "person" THEN r
        ELSE [r EXCEPT !.state.person = NAME_BANK[1]]

ApplyOp(op, step_no, d, state) ==
    CASE op = "deduction" -> Deduction(step_no, d, state)
      [] op = "induction" -> Induction(step_no, d, state)
      [] op = "abduction" -> Abduction(step_no, d, state)
      [] op = "transduction" -> Transduction(step_no, d, state)

\* the draw that picks the operator: none for the first four steps
OpDraws(g) == IF g.i <= 4 THEN {0} ELSE 0..(Len(OPS) - 1)

\* every step draws its operator
OpAtDrawn(g, k) == Choice(OPS, k)

OpAt(g, k) == IF g.i <= 4 THEN g.step_types[g.i] ELSE Choice(OPS, k)

\* the loop body numbering its lines from 0
LoopBodyFromZero(g, op, d) ==
    LET r == ApplyOp(op, g.i - 1, d, g.state)
    IN  IF r.raised THEN [g EXCEPT !.pc = "raised", !.error = r.error]
        ELSE [g EXCEPT !.state = r.state, !.line = r.line,
                       !.question_lines = Append(@, [step_no |-> g.i - 1, op |-> op]),
                       !.i = @ + 1]

\* one pass of the loop body
LoopBody(g, op, d) ==
    LET r == ApplyOp(op, g.i, d, g.state)
    IN  IF r.raised THEN [g EXCEPT !.pc = "raised", !.error = r.error]
        ELSE [g EXCEPT !.state = r.state, !.line = r.line,
                       !.question_lines = Append(@, [step_no |-> g.i, op |-> op]),
                       !.i = @ + 1]

\* the closing step multiplying by the number of letters of the word
ClosingByLetters(g, idx) ==
    LET vowels       == Len(g.state.word)
        name_len     == Len(g.state.person)
        final_answer == g.state.num * vowels * name_len
        lines        == Append(g.question_lines, [step_no |-> g.steps, op |-> "closing"])
    IN  [g EXCEPT !.pc = "done",
                  !.line = [step_no |-> g.steps, op |-> "closing", rng_calls |-> 0,
                            num |-> g.state.num, word |-> g.state.word,
                            person |-> g.state.person],
                  !.question_lines = lines,
                  !.item = [question |-> lines, answer |-> Str(final_answer),
                            metadata |-> [source_dataset |-> DATASET_NAME,
                                          source_index |-> idx, num_steps |-> g.steps]]]

\* the closing step and the returned item
Closing(g, idx) ==
    LET vowels       == VowelCount(g.state.word)
        name_len     == Len(g.state.person)
        final_answer == g.state.num * vowels * name_len
        lines        == Append(g.question_lines, [step_no |-> g.steps, op |-> "closing"])
    IN  [g EXCEPT !.pc = "done",
                  !.line = [step_no |-> g.steps, op |-> "closing", rng_calls |-> 0,
                            num |-> g.state.num, word |-> g.state.word,
                            person |-> g.state.person],
                  !.question_lines = lines,
                  !.item = [question |-> lines, answer |-> Str(final_answer),
                            metadata |-> [source_dataset |-> DATASET_NAME,
                                          source_index |-> idx, num_steps |-> g.steps]]]

\* a score with partial credit for an answer that starts with the expected one
score_answerPartial(answer, entry) ==
    IF answer = entry.answer THEN "1.0"
    ELSE IF Len(answer) >= Len(entry.answer)
            /\ SubSeq(answer, 1, Len(entry.answer)) = entry.answer THEN "0.5"
    ELSE "0.0"

\* ProceduralDataset.score_answer
score_answer(answer, entry) == IF answer = entry.answer THEN "1.0" ELSE "0.0"

Representable(g) == g.pc = "raised" \/ Abs(g.state.num) <= MaxNum

(***************************************************************************)
(* The datasets built and the items asked for.  Every configuration with   *)
(* both step counts in 4..11 is constructed.  An item is asked of the      *)
(* datasets of Asked and of every dataset whose configuration is out of    *)
(* range; the other datasets are empty (size 0) and are only constructed.  *)
(***************************************************************************)
Dataset(lo, hi, seed, size) ==
    [min_steps |-> lo, max_steps |-> hi, seed |-> seed, size |-> size]

Constructed ==
    {Dataset(lo, hi, 0, IF lo \in 5..10 /\ hi \in lo..10 THEN 0 ELSE 1) :
        lo \in 4..11, hi \in 4..11}

\* the datasets an item is asked of, with the index asked for; the key seed + index
\* of each puts another part of the generation in focus
Asked ==
    {<<Dataset(5, 7, 0, 1), 0>>,
     <<Dataset(5, 5, 1, 1), 0>>,
     <<Dataset(5, 5, 1, 2), 1>>,
     <<Dataset(5, 5, 3, 1), 0>>,
     <<Dataset(5, 5, 4, 1), 0>>}

\* d2 is built from the same configuration as d1 and asked for the same index, or
\* from the next seed and asked for the index before
InitAsking(asked) ==
    /\ \/ \E c \in Constructed : config = <<c, c>> /\ index = <<0, 0>>
       \/ \E a \in asked :
            \/ config = <<a[1], a[1]>> /\ index = <<a[2], a[2]>>
            \/ /\ a[2] > 0
               /\ config = <<a[1], [a[1] EXCEPT !.seed = @ + 1]>>
               /\ index = <<a[2], a[2] - 1>>
    /\ gen = <<NewDataset, NewDataset>>
    /\ reward = [answer |-> <<>>, reward |-> None]

Init == InitAsking(Asked)

\* the items of the keys that put the named part of the generation in focus
InFocus(parts) == {a \in Asked : Focus(RngKey(a[1].seed, a[2])) \in parts}

InitSequencer == InitAsking(InFocus({"none", "transduction"}))

InitDeduction == InitAsking(InFocus({"deduction"}))

InitInduction == InitAsking(InFocus({"induction"}))

InitAbduction == InitAsking(InFocus({"abduction"}))

\* the stream of a generator seeded with the dataset's seed alone, whatever the index
KeyOfSeed(d) == config[d].seed

\* the stream dataset d reads for the index asked of it
Key(d) == RngKey(config[d].seed, index[d])

\* both generators are seeded and read the same stream
SameStream == Key(1) # NoSeed /\ Key(1) = Key(2)

\* d2 is about to ask its generator for the draws d1 is asking for
Synced ==
    /\ gen[2].pc = gen[1].pc
    /\ gen[2].i = gen[1].i
    /\ gen[2].steps = gen[1].steps
    /\ gen[2].step_types = gen[1].step_types

\* every next step of a run whose draws are its own
OwnSteps(d) ==
    LET g == gen[d]
    IN  IF g.pc = "ready" THEN
            {Begin(g, Key(d), e) : e \in BeginDraws(config[d], FALSE)}
        ELSE IF g.pc = "loop" /\ g.i < g.steps THEN
            UNION {{LoopBody(g, OpAt(g, k), e) :
                        e \in DrawsOf(OpAt(g, k), Focus(g.rng) = OpAt(g, k))} : k \in OpDraws(g)}
        ELSE IF g.pc = "loop" THEN {Closing(g, index[d])}
        ELSE {g}

ConstructStep ==
    /\ gen[1].pc = "new"
    /\ gen' = [d \in DOMAIN gen |-> Construct(gen[d], config[d])]
    /\ UNCHANGED <<config, index, reward>>

BeginStep ==
    /\ gen[1].pc = "ready"
    /\ index[1] < config[1].size
    /\ \E d \in BeginDraws(config[1], FALSE) :
         \E g2 \in IF SameStream /\ Synced THEN {Begin(gen[2], Key(2), d)} ELSE OwnSteps(2) :
            gen' = <<Begin(gen[1], Key(1), d), g2>>
    /\ UNCHANGED <<config, index, reward>>

\* the loop body of d1 runs operator op, and d2 moves with it
OperatorStep(op) ==
    /\ \E k \in OpDraws(gen[1]) :
         /\ OpAt(gen[1], k) = op
         /\ \E d \in DrawsOf(op, Focus(gen[1].rng) = op) :
              LET g1 == LoopBody(gen[1], op, d)
              IN  /\ Representable(g1)
                  /\ \E g2 \in IF SameStream /\ Synced THEN {LoopBody(gen[2], OpAt(gen[2], k), d)}
                               ELSE OwnSteps(2) :
                        gen' = <<g1, g2>>
    /\ UNCHANGED <<config, index, reward>>

DeductionStep ==
    /\ gen[1].pc = "loop"
    /\ gen[1].i < gen[1].steps
    /\ OperatorStep("deduction")

InductionStep ==
    /\ gen[1].pc = "loop"
    /\ gen[1].i < gen[1].steps
    /\ OperatorStep("induction")

AbductionStep ==
    /\ gen[1].pc = "loop"
    /\ gen[1].i < gen[1].steps
    /\ OperatorStep("abduction")

TransductionStep ==
    /\ gen[1].pc = "loop"
    /\ gen[1].i < gen[1].steps
    /\ OperatorStep("transduction")

ClosingStep ==
    /\ gen[1].pc = "loop"
    /\ gen[1].i >= gen[1].steps
    /\ \E g2 \in IF SameStream /\ Synced THEN {Closing(gen[2], index[2])} ELSE OwnSteps(2) :
         gen' = <<Closing(gen[1], index[1]), g2>>
    /\ UNCHANGED <<config, index, reward>>

\* the answers scored against the item: the item's own and two near it
Answers(item) == {item.answer, item.answer \o <<"0">>, <<"0">>}

ScoreStep ==
    /\ gen[1].pc = "done"
    /\ reward.reward = None
    /\ \E answer \in Answers(gen[1].item) :
         reward' = [answer |-> answer, reward |-> score_answer(answer, gen[1].item)]
    /\ UNCHANGED <<config, index, gen>>

Next ==
    \/ ConstructStep
    \/ BeginStep
    \/ DeductionStep
    \/ InductionStep
    \/ AbductionStep
    \/ TransductionStep
    \/ ClosingStep
    \/ ScoreStep

Spec == Init /\ [][Next]_vars

SpecSequencer == InitSequencer /\ [][Next]_vars

SpecDeduction == InitDeduction /\ [][Next]_vars

SpecInduction == InitInduction /\ [][Next]_vars

SpecAbduction == InitAbduction /\ [][Next]_vars

(***************************************************************************)
(* Properties                                                              *)
(***************************************************************************)
Started(g) == g.pc \in {"loop", "done", "raised"}

InRangeConfig(cfg) ==
    cfg.min_steps >= 5 /\ cfg.min_steps <= cfg.max_steps /\ cfg.max_steps <= 10

\* C1: for a valid config, every operator step and the closing step of an item run
\* to completion without raising an error, whatever num has become.
C1_NoStepRaises ==
    InRangeConfig(config[1]) => gen[1].pc # "raised"

\* C2: two generations of the item of one (seed, index, config), seed not None,
\* consume the same draws and yield the same question, answer and metadata.
C2_SameSeedSameItem ==
    (config[1].seed # NoSeed /\ config[2] = config[1] /\ index[2] = index[1])
        => gen[2] = gen[1]

C2_Witness ==
    /\ config[1].seed # NoSeed /\ config[2] = config[1] /\ index[2] = index[1]
    /\ gen[1].pc = "done" /\ gen[2].pc = "done"
    /\ gen[2].item = gen[1].item

\* C3: whatever num has become, the word-bank index computed by transduction and the
\* name-bank index computed by induction or transduction lie in 0..len(bank)-1 and
\* the lookup returns the bank's entry at that index.
C3_IndexInBank ==
    Started(gen[1]) =>
        LET l == gen[1].line
        IN  /\ gen[1].error # "IndexError"
            /\ (gen[1].i > 1 /\ l.op = "transduction" /\ l.field = "word") =>
                   /\ l.index \in 0..(Len(WORD_BANK) - 1)
                   /\ gen[1].state.word = WORD_BANK[l.index + 1]
            /\ (gen[1].i > 1 /\ l.op \in {"induction", "transduction"} /\ l.field = "person") =>
                   /\ l.idx \in 0..(Len(NAME_BANK) - 1)
                   /\ gen[1].state.person = NAME_BANK[l.idx + 1]

C3_Witness ==
    /\ gen[1].pc = "loop" /\ gen[1].i > 1
    /\ gen[1].line.op = "transduction" /\ gen[1].line.field = "word"
    /\ gen[1].line.num < 0
    /\ gen[1].state.word = WORD_BANK[gen[1].line.index + 1]

\* C4: the question of an item has exactly S lines, the i-th starting "Step i:",
\* S-1 operator lines and then the closing line, and metadata num_steps is S.
C4_LinesNumbered ==
    gen[1].pc = "done" =>
        LET q == gen[1].item.question
            S == gen[1].steps
        IN  /\ S \in config[1].min_steps..config[1].max_steps
            /\ Len(q) = S
            /\ \A k \in 1..Len(q) :
                 /\ q[k].step_no = k
                 /\ (k < S) => q[k].op \in Range(OPS)
                 /\ (k = S) => q[k].op = "closing"
            /\ gen[1].item.metadata.num_steps = S

C4_Witness ==
    /\ gen[1].pc = "done"
    /\ config[1].min_steps = config[1].max_steps
    /\ Len(gen[1].item.question) = config[1].max_steps

\* C5: steps 1 to 4 run each of the four operator kinds exactly once, in the order
\* of the drawn permutation; only the later steps draw their kind freely.
C5_FirstFourPermutation ==
    Started(gen[1]) =>
        LET q == gen[1].question_lines
            n == IF Len(q) < 4 THEN Len(q) ELSE 4
        IN  /\ \A j, k \in 1..n : j # k => q[j].op # q[k].op
            /\ \A k \in 1..n : q[k].op \in Range(OPS) /\ q[k].op = gen[1].step_types[k]
            /\ Len(q) >= 4 => {q[k].op : k \in 1..4} = Range(OPS)

C5_Witness ==
    /\ gen[1].pc = "done"
    /\ Len(gen[1].question_lines) = 7
    /\ gen[1].question_lines[5].op = gen[1].question_lines[6].op
    /\ gen[1].question_lines[5].op = gen[1].question_lines[1].op

\* C6: validation fails for every config outside 5 <= min_steps <= max_steps <= 10
\* and succeeds for every config inside; after a failed validation nothing is generated.
C6_ValidationGuards ==
    /\ gen[1].pc # "new" =>
         ((gen[1].pc = "config_error" /\ gen[1].error = "AssertionError")
             <=> ~InRangeConfig(config[1]))
    /\ ~InRangeConfig(config[1]) =>
         /\ gen[1].pc \in {"new", "config_error"}
         /\ gen[1].question_lines = <<>>
         /\ gen[1].state = <<>>
         /\ gen[1].item = <<>>
         /\ reward.reward = None

C6_Witness ==
    /\ gen[1].pc = "config_error"
    /\ config[1].min_steps = 8 /\ config[1].max_steps = 7
    /\ index[1] < config[1].size

\* C7: the two options an abduction step renders, in the numeric and in the word
\* variant, are never equal: the decoy differs from the secret.
C7_DecoyDiffers ==
    (Started(gen[1]) /\ gen[1].i > 1 /\ gen[1].line.op = "abduction"
        /\ gen[1].line.field \in {"num", "word"})
        => gen[1].line.options[1] # gen[1].line.options[2]

C7_Witness ==
    /\ Started(gen[1]) /\ gen[1].i > 1
    /\ gen[1].line.op = "abduction" /\ gen[1].line.field = "num"
    /\ gen[1].line.options = <<8, 5>>
    /\ gen[1].state.num = 5

\* C8: the closing step draws nothing; the answer is the decimal string of
\* num * (vowels of word) * (letters of person) on the state the last operator step
\* left, and the closing line shows that num, word and person.
C8_ClosingAnswer ==
    [][(gen[1].pc = "loop" /\ gen'[1].pc = "done") =>
          LET st == gen[1].state
              vowels == Cardinality({k \in 1..Len(st.word) : st.word[k] \in {"a","e","i","o","u"}})
          IN  /\ gen'[1].state = st
              /\ gen[1].i = gen[1].steps
              /\ gen'[1].line.rng_calls = 0
              /\ gen'[1].line.step_no = gen[1].steps
              /\ gen'[1].line.num = st.num
              /\ gen'[1].line.word = st.word
              /\ gen'[1].line.person = st.person
              /\ gen'[1].item.answer = Str(st.num * vowels * Len(st.person))]_vars

C8_Witness ==
    /\ gen[1].pc = "done"
    /\ gen[1].state.num < 0
    /\ gen[1].item.answer[1] = "-"
    /\ Len(gen[1].state.word) # VowelCount(gen[1].state.word)

\* C9: score(item.answer, item) is 1.0 and score(s, item) is 0.0 for every other s.
C9_ScoreExact ==
    reward.reward # None =>
        /\ reward.answer = gen[1].item.answer => reward.reward = "1.0"
        /\ reward.answer # gen[1].item.answer => reward.reward = "0.0"

C9_Witness ==
    /\ reward.reward = "0.0"
    /\ reward.answer = gen[1].item.answer \o <<"0">>

\* C10: after any sequence of operator steps person is a member of the name bank.
C10_PersonInBank ==
    Started(gen[1]) => gen[1].state.person \in Range(NAME_BANK)

C10_Witness ==
    /\ gen[1].pc = "loop" /\ gen[1].i > 2
    /\ gen[1].line.op = "induction" /\ gen[1].line.field = "person"
    /\ gen[1].state.person # gen[1].line.start
    /\ gen[1].state.person \in Range(NAME_BANK)

\* C11: two generations under the same step bounds whose seed + index sums are equal,
\* from different (seed, index) pairs, render the same lines and give the same question
\* and answer; the items differ only in metadata source_index.
C11_SameSumSameItem ==
    (/\ config[1].seed # NoSeed /\ config[2].seed # NoSeed
     /\ config[2].min_steps = config[1].min_steps /\ config[2].max_steps = config[1].max_steps
     /\ config[1].seed + index[1] = config[2].seed + index[2])
        => /\ gen[2].pc = gen[1].pc
           /\ gen[2].state = gen[1].state
           /\ gen[2].line = gen[1].line
           /\ gen[2].question_lines = gen[1].question_lines
           /\ gen[1].pc = "done" =>
                /\ gen[2].item.question = gen[1].item.question
                /\ gen[2].item.answer = gen[1].item.answer
                /\ gen[1].item.metadata.source_index = index[1]
                /\ gen[2].item = [gen[1].item EXCEPT !.metadata.source_index = index[2]]

C11_Witness ==
    /\ config[1].seed = 1 /\ index[1] = 1
    /\ config[2].seed = 2 /\ index[2] = 0
    /\ gen[1].pc = "done" /\ gen[2].pc = "done"
    /\ gen[2].item.answer = gen[1].item.answer
    /\ gen[2].item.metadata.source_index # gen[1].item.metadata.source_index

\* the labels deduction writes into word
LABELS == {<<"s","m","a","l","l">>, <<"m","e","d","i","u","m">>, <<"l","a","r","g","e">>}

\* the strings the induction transform makes of the words of a set, and of those, and so on
RECURSIVE Derived(_)
Derived(words) ==
    LET more == words \cup {NewWord(w) : w \in words}
    IN  IF more = words THEN words ELSE Derived(more)

\* the words word can hold
WORDS == Derived(Range(WORD_BANK) \cup LABELS)

\* C12: after any sequence of operator steps word is a non-empty string of lowercase
\* letters: a word-bank entry, a label of deduction, or what the induction transform
\* makes of such a string; induction never fails reading the last letter of word.
C12_WordNonEmptyLowercase ==
    Started(gen[1]) =>
        LET word == gen[1].state.word
        IN  /\ Len(word) > 0
            /\ \A k \in 1..Len(word) : word[k] \in Range(ALPHABET)
            /\ word \in WORDS
            /\ ~(gen[1].pc = "raised" /\ gen[1].error = "IndexError")

C12_Witness ==
    /\ gen[1].pc = "loop" /\ gen[1].i > 2
    /\ gen[1].line.op = "induction" /\ gen[1].line.field = "word"
    /\ gen[1].line.word = <<"m","e","d","i","u","m">>
    /\ gen[1].state.word = <<"u","d","m","m">>

\* C13: every operator step of each of the four kinds draws its choice first and then
\* writes one state field and leaves the other two as they were: num for choice < 0.33,
\* word for 0.33 <= choice < 0.66, person for choice >= 0.66.
C13_OneFieldPerBand ==
    [][(gen[1].pc = "loop" /\ gen'[1].pc = "loop" /\ gen'[1].i = gen[1].i + 1) =>
          LET old == gen[1].state
              new == gen'[1].state
              l   == gen'[1].line
          IN  /\ l.op \in Range(OPS)
              /\ l.rng_calls >= 1
              /\ l.choice \in 0..99
              /\ l.choice < 33 =>
                    l.field = "num" /\ new.word = old.word /\ new.person = old.person
              /\ (l.choice >= 33 /\ l.choice < 66) =>
                    l.field = "word" /\ new.num = old.num /\ new.person = old.person
              /\ l.choice >= 66 =>
                    l.field = "person" /\ new.num = old.num /\ new.word = old.word]_vars

C13_Witness ==
    /\ gen[1].pc = "loop" /\ gen[1].i = 5
    /\ gen[1].line.op = "deduction" /\ gen[1].line.choice = 33
    /\ gen[1].state.word = <<"m","e","d","i","u","m">>
    /\ gen[1].state.num # 2 /\ gen[1].state.num # 9
    /\ gen[1].state.person # NAME_BANK[1]

\* the position of a lowercase letter in the alphabet, from 0
LetterNo(c) == CHOOSE n \in 0..25 : ALPHABET[n + 1] = c

\* C14: an abduction step leaves the secret in the state: in the numeric variant num
\* becomes a secret in 2..5 with secret^3 * mult + add equal to num before the step, for
\* the rendered mult and add; in the word variant word becomes a word-bank entry whose
\* letters shifted forward by the rendered shift modulo 26, then reversed, are the
\* rendered encoded string.
C14_AbductionKeepsSecret ==
    [][(gen[1].pc = "loop" /\ gen'[1].pc = "loop" /\ gen'[1].i = gen[1].i + 1
           /\ gen'[1].line.op = "abduction") =>
          LET old == gen[1].state
              new == gen'[1].state
              l   == gen'[1].line
          IN  /\ l.field = "num" =>
                    /\ new.num \in 2..5
                    /\ l.mult \in 2..4
                    /\ l.num = old.num
                    /\ new.num * new.num * new.num * l.mult + l.add = old.num
                    /\ new.num \in Range(l.options)
              /\ l.field = "word" =>
                    /\ new.word \in Range(WORD_BANK)
                    /\ new.word \in Range(l.options)
                    /\ l.shift \in 1..3
                    /\ Len(l.encoded) = Len(new.word)
                    /\ \A k \in 1..Len(new.word) :
                         LetterNo(l.encoded[Len(new.word) + 1 - k])
                             = (LetterNo(new.word[k]) + l.shift) % 26
                    /\ new.word # l.encoded]_vars

C14_Witness ==
    /\ gen[1].pc = "loop" /\ gen[1].i > 1
    /\ gen[1].line.op = "abduction" /\ gen[1].line.field = "word"
    /\ gen[1].line.shift = 3
    /\ gen[1].line.encoded = <<"i","o","r","z">>
    /\ gen[1].state.word = <<"w","o","l","f">>

\* C15: an induction step's update is the rendered pattern applied the rendered number
\* of times: the numeric variant sets num to x -> x * mult + add applied n times to the
\* old num; the name variant sets person to the name at index
\* (old index + n * (forward - backward)) mod 10 of the name bank.
C15_InductionMatchesPattern ==
    [][(gen[1].pc = "loop" /\ gen'[1].pc = "loop" /\ gen'[1].i = gen[1].i + 1
           /\ gen'[1].line.op = "induction") =>
          LET old == gen[1].state
              new == gen'[1].state
              l   == gen'[1].line
          IN  /\ l.field = "num" =>
                    LET x[k \in 0..l.n] == IF k = 0 THEN old.num ELSE x[k - 1] * l.mult + l.add
                    IN  /\ l.num = old.num
                        /\ l.mult \in 2..4 /\ l.add \in 3..7 /\ l.n \in 3..5
                        /\ new.num = x[l.n]
              /\ l.field = "person" =>
                    LET at == CHOOSE k \in 0..9 : NAME_BANK[k + 1] = old.person
                    IN  /\ l.start = old.person
                        /\ l.forward \in 1..3 /\ l.backward \in 1..3 /\ l.n \in 2..4
                        /\ new.person
                             = NAME_BANK[((at + l.n * (l.forward - l.backward)) % 10) + 1]]_vars

C15_Witness ==
    /\ gen[1].pc = "loop" /\ gen[1].i > 1
    /\ gen[1].line.op = "induction" /\ gen[1].line.field = "num"
    /\ gen[1].line.num = 0 /\ gen[1].line.mult = 2 /\ gen[1].line.add = 3
    /\ gen[1].line.n = 5
    /\ gen[1].state.num = 93

====
